---------------------------- MODULE Spec2Model ----------------------------
(***************************************************************************)
(* A model of py_yaml_fixtures/fixtures_loader.py: the reference grammar   *)
(* (_convert_str, _group_by_class_name, _flatten_csv_list), the Source     *)
(* Cache kept in the class attributes of FixturesLoader, and the public    *)
(* operations of the loader.                                               *)
(*                                                                         *)
(* A Python str is a sequence of one-character strings, so that the        *)
(* regular expression, strip and split act on characters.  None is the     *)
(* value None_.  An exception is the field exc of a result record.         *)
(***************************************************************************)
EXTENDS Integers, Sequences, FiniteSets, TLC

(***************************************************************************)
(* Characters.                                                             *)
(***************************************************************************)
WordChars == {"A", "B", "x", "y", "z", "k", "q", "w"}    \* \w
SpaceChars == {" ", "\n"}                                  \* \s
LineBreaks == {"\n"}                                       \* str.splitlines

None_ == <<"<None>">>

Min(S) == CHOOSE m \in S : \A n \in S : m <= n

\* not x, for x a str or None
Falsy(x) == x = None_ \/ x = <<>>

Last(s) == s[Len(s)]

\* a value computed once and handed to the rest of the method
Then(value, rest(_)) == rest(value)

\* the first index i of seq with seq[i][1] = k, or 0
RECURSIVE IndexOf(_, _)
IndexOf(items, k) ==
    IF items = <<>> THEN 0
    ELSE IF Head(items)[1] = k THEN 1
    ELSE LET r == IndexOf(Tail(items), k) IN IF r = 0 THEN 0 ELSE r + 1

(***************************************************************************)
(* types.Identifier: a (class_name, key) pair, unpacked as a 2-tuple by    *)
(* _maybe_load_data.                                                       *)
(***************************************************************************)
Identifier(class_name, key) == <<class_name, key>>
class_name_of(identifier) == identifier[1]
key_of(identifier) == identifier[2]

(***************************************************************************)
(* str methods.                                                            *)
(***************************************************************************)
\* ''.join(value.splitlines())
join_splitlines(value) == SelectSeq(value, LAMBDA c : c \notin LineBreaks)

\* s.strip(chars)
RECURSIVE lstrip(_, _)
lstrip(s, chars) ==
    IF s # <<>> /\ Head(s) \in chars THEN lstrip(Tail(s), chars) ELSE s

RECURSIVE rstrip(_, _)
rstrip(s, chars) ==
    IF s # <<>> /\ Last(s) \in chars
    THEN rstrip(SubSeq(s, 1, Len(s) - 1), chars) ELSE s

strip(s, chars) == rstrip(lstrip(s, chars), chars)

\* s.split(sep) for a one-character sep: never empty, '' gives ['']
RECURSIVE split(_, _)
split(s, sep) ==
    LET hits == {i \in 1..Len(s) : s[i] = sep} IN
    IF hits = {} THEN <<s>>
    ELSE LET i == Min(hits) IN
         <<SubSeq(s, 1, i - 1)>> \o split(SubSeq(s, i + 1, Len(s)), sep)

\* s.rfind(ch): the 0-based index of the last ch, or -1
rfind(s, ch) ==
    LET hits == {i \in 1..Len(s) : s[i] = ch} IN
    IF hits = {} THEN -1 ELSE (CHOOSE m \in hits : \A n \in hits : n <= m) - 1

\* s[:n] for a Python slice bound n (negative counts from the end)
slice_to(s, n) ==
    IF n >= 0 THEN SubSeq(s, 1, IF n > Len(s) THEN Len(s) ELSE n)
    ELSE SubSeq(s, 1, IF Len(s) + n < 0 THEN 0 ELSE Len(s) + n)

(***************************************************************************)
(* identifier_re = (?P<class_name>\w+)\((?P<identifiers>[\w,\s]+)\)        *)
(* Both repetitions are followed by a character outside their class, so a  *)
(* match takes the maximal run of each.                                    *)
(***************************************************************************)
RECURSIVE RunEnd(_, _, _)
RunEnd(value, i, chars) ==
    IF i > Len(value) THEN i
    ELSE IF value[i] \in chars THEN RunEnd(value, i + 1, chars) ELSE i

\* the match that starts at index s (1-based), or no match
identifier_re_match(value, s) ==
    LET e == RunEnd(value, s, WordChars)
        f == RunEnd(value, e + 1, WordChars \cup SpaceChars \cup {","})
    IN IF /\ e > s
          /\ e <= Len(value) /\ value[e] = "("
          /\ f > e + 1
          /\ f <= Len(value) /\ value[f] = ")"
       THEN [found |-> TRUE,
             class_name |-> SubSeq(value, s, e - 1),
             identifiers |-> SubSeq(value, e + 1, f - 1),
             end |-> f]
       ELSE [found |-> FALSE, class_name |-> <<>>, identifiers |-> <<>>,
             end |-> 0]

\* identifier_re.search(value, pos): the leftmost match at or after the
\* 0-based position pos
RECURSIVE identifier_re_search(_, _)
identifier_re_search(value, pos) ==
    IF pos >= Len(value) THEN identifier_re_match(value, Len(value) + 1)
    ELSE IF value[pos + 1] \in WordChars /\ identifier_re_match(value, pos + 1).found
    THEN identifier_re_match(value, pos + 1)
    ELSE identifier_re_search(value, pos + 1)

(***************************************************************************)
(* _convert_str                                                            *)
(***************************************************************************)
RECURSIVE _convert_str_loop(_, _, _)
_convert_str_loop(value, pos, rv) ==
    LET match == identifier_re_search(value, pos) IN
    IF ~match.found /\ rv = <<>> THEN <<Identifier(None_, value)>>
    ELSE IF ~match.found THEN rv
    ELSE _convert_str_loop(value, match.end,
            Append(rv, Identifier(match.class_name, match.identifiers)))

_convert_str(value) == _convert_str_loop(join_splitlines(value), 0, <<>>)

(***************************************************************************)
(* _flatten_csv_list                                                       *)
(***************************************************************************)
RECURSIVE MapStrip(_)
MapStrip(keys) ==
    IF keys = <<>> THEN <<>>
    ELSE <<strip(Head(keys), SpaceChars)>> \o MapStrip(Tail(keys))

\* the keys stripped but never split on commas
RECURSIVE _flatten_csv_list_unsplit(_)
_flatten_csv_list_unsplit(identifier_keys) ==
    IF identifier_keys = <<>> THEN <<>>
    ELSE <<strip(strip(Head(identifier_keys), {","}), SpaceChars)>>
         \o _flatten_csv_list_unsplit(Tail(identifier_keys))

RECURSIVE _flatten_csv_list(_)
_flatten_csv_list(identifier_keys) ==
    IF identifier_keys = <<>> THEN <<>>
    ELSE MapStrip(split(strip(Head(identifier_keys), {","}), ","))
         \o _flatten_csv_list(Tail(identifier_keys))

(***************************************************************************)
(* Python values handed to the loader: [type, v].                          *)
(***************************************************************************)
Str(chars) == [type |-> "str", v |-> chars]
List(items) == [type |-> "list", v |-> items]
Ident(class_name, key) == [type |-> "Identifier", v |-> Identifier(class_name, key)]
PyNone == [type |-> "NoneType", v |-> <<>>]
PyInt == [type |-> "int", v |-> <<>>]

\* a str, or None, as a value
ValueOf(x) == IF x = None_ THEN PyNone ELSE Str(x)

RECURSIVE AsIdentifierValues(_)
AsIdentifierValues(ids) ==
    IF ids = <<>> THEN <<>>
    ELSE <<[type |-> "Identifier", v |-> Head(ids)]>> \o AsIdentifierValues(Tail(ids))

\* bool(x)
Truthy(x) ==
    CASE x.type = "NoneType" -> FALSE
      [] x.type = "int" -> TRUE
      [] OTHER -> x.v # <<>>

(***************************************************************************)
(* dict: a sequence of <<key, value>> in insertion order.  Assigning to a  *)
(* key that is present replaces its value and keeps its position.          *)
(***************************************************************************)
DictHas(d, k) == IndexOf(d, k) # 0
DictGet(d, k) == d[IndexOf(d, k)][2]
\* a list of pairs that is appended to, whatever it holds
DictSet_append(d, k, v) == Append(d, <<k, v>>)

DictSet(d, k, v) ==
    IF DictHas(d, k) THEN [d EXCEPT ![IndexOf(d, k)] = <<k, v>>]
    ELSE Append(d, <<k, v>>)
DictKeys(d) == {d[i][1] : i \in 1..Len(d)}

RECURSIVE DictValues(_)
DictValues(d) ==
    IF d = <<>> THEN <<>> ELSE <<Head(d)[2]>> \o DictValues(Tail(d))

\* rv[k].append(v) on a defaultdict(list)
DictAppend(d, k, v) ==
    IF DictHas(d, k) THEN DictSet(d, k, Append(DictGet(d, k), v))
    ELSE Append(d, <<k, <<v>>>>)

(***************************************************************************)
(* _group_by_class_name                                                    *)
(***************************************************************************)
RECURSIVE AppendIdentifiers(_, _)
AppendIdentifiers(rv, ids) ==
    IF ids = <<>> THEN rv
    ELSE AppendIdentifiers(
            DictAppend(rv, class_name_of(Head(ids)), key_of(Head(ids))),
            Tail(ids))

RECURSIVE group_loop(_, _)
group_loop(identifiers, rv) ==
    IF identifiers = <<>> THEN [exc |-> "", val |-> rv]
    ELSE LET v == Head(identifiers) IN
         IF v.type = "Identifier"
         THEN group_loop(Tail(identifiers), AppendIdentifiers(rv, <<v.v>>))
         ELSE IF v.type = "str"
         THEN group_loop(Tail(identifiers), AppendIdentifiers(rv, _convert_str(v.v)))
         ELSE [exc |-> "Exception: Unexpected type", val |-> <<>>]

_group_by_class_name(identifiers) == group_loop(identifiers, <<>>)

(***************************************************************************)
(* FixturesLoader._flatten_identifiers                                     *)
(***************************************************************************)
\* the inner loop over the keys of one class; class_name is the loop
\* variable of the outer loop, assigned inside the inner one
RECURSIVE flatten_keys(_, _, _, _)
flatten_keys(class_name_lookup, class_name, keys, rv) ==
    IF keys = <<>> THEN [exc |-> "", val |-> rv]
    ELSE LET key == Head(keys) IN
         IF key = <<>>
         THEN flatten_keys(class_name_lookup, class_name, Tail(keys), rv)
         ELSE IF Falsy(class_name) /\ ~DictHas(class_name_lookup, key)
         THEN [exc |-> "KeyError: class_name_lookup", val |-> rv]
         ELSE LET cn == IF Falsy(class_name)
                        THEN DictGet(class_name_lookup, key) ELSE class_name
              IN flatten_keys(class_name_lookup, cn, Tail(keys),
                        DictSet(rv, key, Identifier(cn, key)))

RECURSIVE flatten_items(_, _, _)
flatten_items(class_name_lookup, items, rv) ==
    IF items = <<>> THEN [exc |-> "", val |-> DictValues(rv)]
    ELSE LET r == flatten_keys(class_name_lookup, Head(items)[1],
                        _flatten_csv_list(Head(items)[2]), rv)
         IN IF r.exc # "" THEN [exc |-> r.exc, val |-> <<>>]
            ELSE flatten_items(class_name_lookup, Tail(items), r.val)

_flatten_identifiers(class_name_lookup, identifiers) ==
    LET asList ==
            CASE identifiers.type = "str" ->
                    List(AsIdentifierValues(_convert_str(identifiers.v)))
              [] identifiers.type = "Identifier" ->  \* a tuple of two fields
                    List(<<ValueOf(identifiers.v[1]), ValueOf(identifiers.v[2])>>)
              [] OTHER -> identifiers
    IN IF asList.type # "list"
       THEN [exc |-> "AttributeError: items", val |-> <<>>]
       ELSE LET g == _group_by_class_name(asList.v) IN
            IF g.exc # "" THEN [exc |-> g.exc, val |-> <<>>]
            ELSE flatten_items(class_name_lookup, g.val, <<>>)

(***************************************************************************)
(* The fixtures directories and what their files render and parse to.      *)
(* Loader 1 is built on directory 1, loader 2 on directory 2.  Directory 1 *)
(* holds A.y (keys x, k) and B.y (keys z, k); directory 2 holds A.y (keys  *)
(* x, w) and a sub-directory q.                                            *)
(***************************************************************************)
Loaders == {1, 2}
fixtures_dir(self) == self

A_y == <<"A", ".", "y">>
B_y == <<"B", ".", "y">>

listdir(dir) == IF dir = 1 THEN {A_y, B_y} ELSE {A_y, <<"q">>}
isfile(dir, filename) == filename # <<"q">>

\* the attribute mapping a file declares for a key
RawData(dir, filename, key) == <<"raw", dir, filename, key>>

\* yaml.load(env.get_template(filename).render()): key -> data, in file order
fixture_data(dir, filename) ==
    LET keys == IF dir = 1
                THEN IF filename = A_y THEN <<<<"x">>, <<"k">>>>
                     ELSE <<<<"z">>, <<"k">>>>
                ELSE <<<<"x">>, <<"w">>>>
    IN [i \in 1..Len(keys) |-> <<keys[i], RawData(dir, filename, keys[i])>>]

\* the orders in which os.listdir may return the entries of a directory
Orders(dir) ==
    {o \in [1..Cardinality(listdir(dir)) -> listdir(dir)] :
        \A i, j \in DOMAIN o : i # j => o[i] # o[j]}

(***************************************************************************)
(* The factory collaborator.  Every call is recorded; the fail-th call of  *)
(* create_or_update raises (0: none does).                                 *)
(***************************************************************************)
Call(name, self, arg1, arg2) ==
    [call |-> name, self |-> self, arg1 |-> arg1, arg2 |-> arg2]

CountCalls(calls, names) ==
    Cardinality({i \in 1..Len(calls) : calls[i].call \in names})

ConvertedData(data) == <<"converted", data[2], data[3], data[4]>>
Instance(identifier, data) == <<"model", identifier, data>>

Raise(m, exc) == [m EXCEPT !.exc = exc]

\* one factory call: the record of it, and its failure when it is the
\* fail-th
FactoryCall(m, name, self, identifier, data, fail) ==
    LET m1 == [m EXCEPT !.calls = Append(@, Call(name, self, identifier, data))]
    IN IF name = "create_or_update" /\ CountCalls(m1.calls, {name}) = fail
       THEN Raise(m1, "FactoryError") ELSE m1

\* a commit that is left out
commit_forgotten(m, self) == m

commit(m, self) ==
    [m EXCEPT !.calls = Append(@, Call("commit", self, <<>>, <<>>))]

(***************************************************************************)
(* FixturesLoader._ensure_env                                              *)
(***************************************************************************)
FakerSeed == 1234

NoEnv == [env |-> "None", loader |-> 0, faker |-> 0]

_ensure_env(m, self) ==
    LET e1 == IF m.env.env = "None"
              THEN [env |-> "Environment", loader |-> 0, faker |-> 0]
              ELSE m.env
        e2 == IF e1.loader = 0
              THEN [e1 EXCEPT !.loader = fixtures_dir(self)] ELSE e1
        e3 == IF e2.faker = 0 THEN [e2 EXCEPT !.faker = FakerSeed] ELSE e2
    IN [m EXCEPT !.env = e3]

(***************************************************************************)
(* FixturesLoader._load_from_yaml                                          *)
(***************************************************************************)
\* the loop that fills class_name_lookup alone
RECURSIVE StoreFixtures_lookup_only(_, _, _)
StoreFixtures_lookup_only(m, class_name, items) ==
    IF items = <<>> THEN m
    ELSE StoreFixtures_lookup_only(
            [m EXCEPT
                !.class_name_lookup = DictSet(@, Head(items)[1], class_name)],
            class_name, Tail(items))

RECURSIVE StoreFixtures(_, _, _)
StoreFixtures(m, class_name, items) ==
    IF items = <<>> THEN m
    ELSE StoreFixtures(
            [m EXCEPT
                !.class_name_lookup = DictSet(@, Head(items)[1], class_name),
                !.model_fixtures = DictSet(@, Head(items)[1], Head(items)[2])],
            class_name, Tail(items))

_load_from_yaml(m, self, filename) ==
    LET m1 == _ensure_env(m, self)
        m2 == [m1 EXCEPT !.calls =
                    Append(@, Call("render", self, m1.env.loader, filename))]
        class_name == slice_to(filename, rfind(filename, "."))
    IN StoreFixtures(m2, class_name, fixture_data(m1.env.loader, filename))

(***************************************************************************)
(* FixturesLoader._load_data: class_names is a set; the default None, like *)
(* the empty set, fails the test "not class_names" and is written {}       *)
(***************************************************************************)
RECURSIVE load_data_loop(_, _, _, _)
load_data_loop(m, self, class_names, filenames) ==
    IF filenames = <<>> THEN m
    ELSE LET filename == Head(filenames)
             class_name == slice_to(filename, rfind(filename, "."))
             m1 == IF /\ isfile(fixtures_dir(self), filename)
                      /\ \/ class_names = {}
                         \/ None_ \in class_names
                         \/ class_name \in class_names
                   THEN [_load_from_yaml(m, self, filename) EXCEPT
                            !.loaded_class_names = @ \cup {class_name}]
                   ELSE m
         IN load_data_loop(m1, self, class_names, Tail(filenames))

\* a load that starts from an emptied Source Cache
_load_data_cleared(m, self, class_names, order) ==
    load_data_loop(
        [m EXCEPT !.calls =
                    Append(@, Call("listdir", self, fixtures_dir(self), <<>>)),
                  !.loaded_class_names = {},
                  !.class_name_lookup = <<>>,
                  !.model_fixtures = <<>>],
        self, class_names, order)

_load_data(m, self, class_names, order) ==
    load_data_loop(
        [m EXCEPT !.calls =
            Append(@, Call("listdir", self, fixtures_dir(self), <<>>))],
        self, class_names, order)

(***************************************************************************)
(* FixturesLoader._maybe_load_data                                         *)
(***************************************************************************)
_maybe_load_data(m, self, identifiers, order) ==
    LET class_names ==
            {class_name_of(identifiers[i]) : i \in 1..Len(identifiers)}
                \ m.loaded_class_names
    IN IF class_names = {} THEN m
       ELSE _load_data(m, self, class_names, order)

(***************************************************************************)
(* FixturesLoader._create: the instance is m.val                           *)
(***************************************************************************)
_create(m, self, identifier, order, fail) ==
    IF Falsy(class_name_of(identifier))
    THEN Raise(m, "Exception: Identifier must have a class name!")
    ELSE
    Then(_maybe_load_data(m, self, <<identifier>>, order), LAMBDA m1 :
    IF ~DictHas(m1.model_fixtures, key_of(identifier))
    THEN Raise(m1, "KeyError: model_fixtures")
    ELSE
    Then(DictGet(m1.model_fixtures, key_of(identifier)), LAMBDA raw :
    Then(FactoryCall(m1, "maybe_convert_values", self, identifier, raw, fail),
         LAMBDA m2 :
    IF m2.exc # "" THEN m2
    ELSE
    Then(ConvertedData(raw), LAMBDA data :
    Then(FactoryCall(m2, "create_or_update", self, identifier, data, fail),
         LAMBDA m3 :
    IF m3.exc # "" THEN m3
    ELSE [m3 EXCEPT !.val = Instance(identifier, data)])))))

(***************************************************************************)
(* State.  loaded_class_names, class_name_lookup and model_fixtures are    *)
(* class attributes of FixturesLoader, which no method ever rebinds on the *)
(* instance: there is one of each per process.  env is an instance         *)
(* attribute.  listing is the order in which os.listdir returns the        *)
(* entries of each loader's directory, the same at every call: any order   *)
(* of the two files of directory 1; directory 2 has one file, listed after *)
(* its sub-directory.                                                      *)
(* op, calls, pre and rendered record the last operation: its              *)
(* arguments and outcome, the collaborator calls it made, the Source Cache *)
(* before it, and the files rendered before it.  drawn describes how the   *)
(* argument of a flattening run was built (SpecFlatten).                   *)
(***************************************************************************)
VARIABLES loaded_class_names, class_name_lookup, model_fixtures, env,
          listing, op, calls, pre, rendered, drawn

vars == <<loaded_class_names, class_name_lookup, model_fixtures, env,
          listing, op, calls, pre, rendered, drawn>>

Cache == [loaded_class_names |-> loaded_class_names,
          class_name_lookup |-> class_name_lookup,
          model_fixtures |-> model_fixtures]

\* the machine a method of loader self runs on
Start(self) ==
    [loaded_class_names |-> loaded_class_names,
     class_name_lookup |-> class_name_lookup,
     model_fixtures |-> model_fixtures,
     env |-> env[self], calls |-> <<>>, exc |-> "", val |-> <<>>]

RenderedBy(cs) ==
    {<<cs[i].arg1, cs[i].arg2>> : i \in {j \in 1..Len(cs) : cs[j].call = "render"}}

\* the state a method leaves, returning or raising
Finish(name, self, args, result) ==
    \E m \in {result} :
        /\ loaded_class_names' = m.loaded_class_names
        /\ class_name_lookup' = m.class_name_lookup
        /\ model_fixtures' = m.model_fixtures
        /\ env' = [env EXCEPT ![self] = m.env]
        /\ listing' = listing
        /\ drawn' = drawn
        /\ calls' = m.calls
        /\ rendered' = rendered \cup RenderedBy(m.calls)
        /\ pre' = [cache |-> Cache, rendered |-> rendered]
        /\ op' = [name |-> name, self |-> self, args |-> args,
                  exc |-> m.exc,
                  ret |-> IF m.exc = "" THEN m.val ELSE <<>>,
                  repeat |-> IF op.name = name /\ op.self = self
                             THEN op.args = args ELSE FALSE]

(***************************************************************************)
(* FixturesLoader.create_all                                               *)
(***************************************************************************)
RECURSIVE AllIdentifiers(_)
AllIdentifiers(lookup) ==
    IF lookup = <<>> THEN <<>>
    ELSE <<Identifier(Head(lookup)[2], Head(lookup)[1])>>
         \o AllIdentifiers(Tail(lookup))

\* {identifier.key: self._create(identifier) for identifier in identifiers}
RECURSIVE create_each(_, _, _, _, _, _)
create_each(m, self, identifiers, order, fail, models) ==
    IF identifiers = <<>> THEN [m EXCEPT !.val = models]
    ELSE Then(_create(m, self, Head(identifiers), order, fail), LAMBDA m1 :
         IF m1.exc # "" THEN m1
         ELSE create_each(m1, self, Tail(identifiers), order, fail,
                    DictSet(models, key_of(Head(identifiers)), m1.val)))

\* create_all with the commit in a finally clause
create_all_commit_finally(m, self, identifiers, order, fail) ==
    IF Truthy(identifiers)
    THEN Then(_flatten_identifiers(m.class_name_lookup, identifiers),
              LAMBDA flat :
         IF flat.exc # "" THEN commit(Raise(m, flat.exc), self)
         ELSE commit(create_each(m, self, flat.val, order, fail, <<>>), self))
    ELSE Then(_load_data(m, self, {}, order), LAMBDA m1 :
         commit(create_each(m1, self, AllIdentifiers(m1.class_name_lookup),
                            order, fail, <<>>), self))

\* the constructions, then the commit
create_and_commit(m, self, identifiers, order, fail) ==
    Then(create_each(m, self, identifiers, order, fail, <<>>), LAMBDA m2 :
    IF m2.exc # "" THEN m2 ELSE commit(m2, self))

create_all(m, self, identifiers, order, fail) ==
    IF Truthy(identifiers)
    THEN Then(_flatten_identifiers(m.class_name_lookup, identifiers),
              LAMBDA flat :
         IF flat.exc # "" THEN Raise(m, flat.exc)
         ELSE create_and_commit(m, self, flat.val, order, fail))
    ELSE Then(_load_data(m, self, {}, order), LAMBDA m1 :
         create_and_commit(m1, self, AllIdentifiers(m1.class_name_lookup),
                           order, fail))

(***************************************************************************)
(* FixturesLoader.get_models                                               *)
(***************************************************************************)
AttrDict(d) == [type |-> "AttrDict", v |-> d]

get_models(m, self, identifiers, order, fail) ==
    Then(create_all(m, self, identifiers, order, fail), LAMBDA m1 :
    IF m1.exc # "" THEN m1 ELSE [m1 EXCEPT !.val = AttrDict(m1.val)])

(***************************************************************************)
(* FixturesLoader.create                                                   *)
(***************************************************************************)
\* create that loads the source of the class it is given first
create_loading(m, self, class_name_or_identifier_string, identifier_key, fail) ==
    Then(IF ~Falsy(identifier_key)
         THEN _maybe_load_data(m, self,
                <<Identifier(class_name_or_identifier_string, identifier_key)>>,
                listing[self])
         ELSE m, LAMBDA m0 :
    Then(IF ~Falsy(identifier_key)
         THEN Identifier(class_name_or_identifier_string, identifier_key)
         ELSE _convert_str(class_name_or_identifier_string)[1],
         LAMBDA identifier :
    IF ~DictHas(m0.model_fixtures, key_of(identifier))
    THEN Raise(m0, "KeyError: model_fixtures")
    ELSE
    Then(DictGet(m0.model_fixtures, key_of(identifier)), LAMBDA data :
    Then(FactoryCall(m0, "create_or_update", self, identifier, data, fail),
         LAMBDA m1 :
    IF m1.exc # "" THEN m1
    ELSE commit([m1 EXCEPT !.val = Instance(identifier, data)], self)))))

create(m, self, class_name_or_identifier_string, identifier_key, fail) ==
    Then(IF ~Falsy(identifier_key)
         THEN Identifier(class_name_or_identifier_string, identifier_key)
         ELSE _convert_str(class_name_or_identifier_string)[1],
         LAMBDA identifier :
    IF ~DictHas(m.model_fixtures, key_of(identifier))
    THEN Raise(m, "KeyError: model_fixtures")
    ELSE
    Then(DictGet(m.model_fixtures, key_of(identifier)), LAMBDA data :
    Then(FactoryCall(m, "create_or_update", self, identifier, data, fail),
         LAMBDA m1 :
    IF m1.exc # "" THEN m1
    ELSE commit([m1 EXCEPT !.val = Instance(identifier, data)], self))))

(***************************************************************************)
(* FixturesLoader.convert_identifiers / convert_identifier                 *)
(***************************************************************************)
\* [self._create(identifier) for identifier in identifiers]
RECURSIVE create_list(_, _, _, _, _, _)
create_list(m, self, identifiers, order, fail, result) ==
    IF identifiers = <<>> THEN [m EXCEPT !.val = result]
    ELSE Then(_create(m, self, Head(identifiers), order, fail), LAMBDA m1 :
         IF m1.exc # "" THEN m1
         ELSE create_list(m1, self, Tail(identifiers), order, fail,
                    Append(result, m1.val)))

create_flattened(m, self, identifiers, order, fail) ==
    Then(_flatten_identifiers(m.class_name_lookup, identifiers), LAMBDA flat :
    IF flat.exc # "" THEN Raise(m, flat.exc)
    ELSE create_list(m, self, flat.val, order, fail, <<>>))

convert_identifier(m, self, identifier, order, fail) ==
    Then(create_flattened(m, self, identifier, order, fail), LAMBDA m1 :
    IF m1.exc # "" THEN m1
    ELSE IF Len(m1.val) = 1 THEN [m1 EXCEPT !.val = m1.val[1]] ELSE m1)

convert_identifiers(m, self, identifiers, order, fail) ==
    IF identifiers.type = "list"
    THEN create_flattened(m, self, identifiers, order, fail)
    ELSE convert_identifier(m, self, identifiers, order, fail)

(***************************************************************************)
(* The calls the model makes.                                              *)
(***************************************************************************)
MaxFail == 2

cA == <<"A">>
cB == <<"B">>
cQ == <<"q">>
kx == <<"x">>
kk == <<"k">>
kz == <<"z">>
kw == <<"w">>
kq == <<"q">>
Comma == <<",", " ">>
Ref(class_name, keys) == class_name \o <<"(">> \o keys \o <<")">>

\* A(x,k), B(z)
RefGroups == Str(Ref(cA, <<"x", ",", "k">>) \o Comma \o Ref(cB, kz))
\* A(k), B(k)
RefSameKey == Str(Ref(cA, kk) \o Comma \o Ref(cB, kk))
\* B(z), A(q): q is in no file
RefMissingKey == Str(Ref(cB, kz) \o Comma \o Ref(cA, kq))
\* A(w): w is declared by A.y of directory 2 only
RefOtherDir == Str(Ref(cA, kw))
\* q(x): no file q.*
RefMissingClass == Str(Ref(cQ, kx))
\* bare keys: "x, z", "z, q", "q", "z", ["x", "z"]
RefBareTwo == Str(kx \o Comma \o kz)
RefBareKnownUnknown == Str(kz \o Comma \o kq)
RefBareUnknown == Str(kq)
RefBareOne == Str(kz)
RefBareList == List(<<Str(kx), Str(kz)>>)
\* ["A(x)", "A(x)", Identifier("A", "x")]
RefDuplicates == List(<<Str(Ref(cA, kx)), Str(Ref(cA, kx)), Ident(cA, kx)>>)
\* ["B(z)", 5]
RefBadType == List(<<Str(Ref(cB, kz)), PyInt>>)
\* ["A(x)"]: one reference to one key
SingleRef(class_name, key) == List(<<Str(Ref(class_name, key))>>)
RefOneList == SingleRef(cA, kx)
\* B(x): x is declared by A.y, not by B.y
RefWrongClass == Str(Ref(cB, kx))

References(name, self) ==
    IF self = 2
    THEN CASE name = "create_all" -> {PyNone, RefOtherDir, RefBareTwo}
           [] name = "get_models" -> {PyNone}
           [] OTHER -> {RefOtherDir}
    ELSE CASE name = "create_all" ->
                {PyNone, Str(<<>>), Str(<<",">>), RefGroups, RefSameKey,
                 RefMissingKey, RefMissingClass, RefBareTwo,
                 RefBareKnownUnknown, RefBareUnknown, RefBareList,
                 RefDuplicates, RefBadType, RefOneList, RefWrongClass}
           [] name = "get_models" ->
                {PyNone, RefGroups, RefBareUnknown, RefBareKnownUnknown}
           [] OTHER ->
                {PyNone, RefGroups, RefBareOne, RefBareTwo, RefBareUnknown,
                 RefBareKnownUnknown, RefDuplicates}

CreateArgs ==
    { <<cA, kx>>, <<cB, kk>>, <<cA, kq>>,
      <<Ref(cA, kx), None_>>,                                    \* A(x)
      <<Ref(cA, <<"x", ",", " ", "k">>), None_>>,                \* A(x, k)
      <<kz, None_>> }

ClassFilters == {<<cA>>, <<cB>>, <<cQ>>, <<cA, cB>>, <<cB, cQ>>}

RECURSIVE WithKey(_)
WithKey(class_names) ==
    IF class_names = <<>> THEN <<>>
    ELSE <<Identifier(Head(class_names), kx)>> \o WithKey(Tail(class_names))

NotDrawn == [kind |-> "none", v |-> <<>>, style |-> ""]

Init ==
    /\ loaded_class_names = {}
    /\ class_name_lookup = <<>>
    /\ model_fixtures = <<>>
    /\ env = [self \in Loaders |-> NoEnv]
    /\ \E order \in Orders(fixtures_dir(1)) : listing = <<order, <<<<"q">>, A_y>>>>
    /\ calls = <<>>
    /\ rendered = {}
    /\ pre = [cache |-> Cache, rendered |-> {}]
    /\ op = [name |-> "__init__", self |-> 1, args |-> <<>>, exc |-> "",
             ret |-> <<>>, repeat |-> FALSE]
    /\ drawn = NotDrawn

CallCreateAll ==
    \E self \in Loaders : \E identifiers \in References("create_all", self),
       fail \in 0..MaxFail :
        Finish("create_all", self, identifiers,
               create_all(Start(self), self, identifiers, listing[self], fail))

CallGetModels ==
    \E self \in Loaders : \E identifiers \in References("get_models", self) :
        Finish("get_models", self, identifiers,
               get_models(Start(self), self, identifiers, listing[self], 0))

CallConvertIdentifiers ==
    \E self \in Loaders : \E identifiers \in References("convert_identifiers", self) :
        Finish("convert_identifiers", self, identifiers,
               convert_identifiers(Start(self), self, identifiers, listing[self], 0))

CallCreate ==
    \E self \in Loaders, args \in CreateArgs, fail \in 0..1 :
        Finish("create", self, args,
               create(Start(self), self, args[1], args[2], fail))

CallMaybeLoadData ==
    \E self \in Loaders : \E class_names \in ClassFilters :
        Finish("_maybe_load_data", self, WithKey(class_names),
               _maybe_load_data(Start(self), self, WithKey(class_names), listing[self]))

Next ==
    \/ CallCreateAll
    \/ CallGetModels
    \/ CallConvertIdentifiers
    \/ CallCreate
    \/ CallMaybeLoadData

Spec == Init /\ [][Next]_vars

(***************************************************************************)
(* Flattening on its own: the argument is drawn from the reference strings *)
(* of up to MaxTokens keys and the lists of up to MaxListLen elements, and *)
(* is flattened before or after loader 1 has loaded its directory.         *)
(*                                                                         *)
(* A reference string is drawn as a sequence of tokens [class, key, new]:  *)
(* the key (possibly empty), the class of its group, and whether the key   *)
(* opens a new group.  The plain style writes "A(x,k), B(z)"; the spaced   *)
(* style pads the keys with blanks and breaks the line between groups and  *)
(* after each comma.  A bare string is the keys alone: "x, k".             *)
(***************************************************************************)
MaxTokens == 3
MaxListLen == 3

Classes == {cA, cB}
Keys == {kx, kk, kz}

Tokens == [class : Classes, key : Keys \cup {<<>>}, new : BOOLEAN]

TokenSeqs ==
    UNION {
        {t \in [1..n -> Tokens] :
            /\ t[1].new
            /\ \A i \in 2..n : ~t[i].new => t[i].class = t[i - 1].class}
        : n \in 1..MaxTokens}

Styles == {"plain", "spaced"}
Pad(style) == IF style = "plain" THEN <<>> ELSE <<" ">>
KeySep(style) == IF style = "plain" THEN <<",">> ELSE <<" ", ",", "\n", " ">>
GroupSep(style) == IF style = "plain" THEN <<",", " ">> ELSE <<",", "\n">>

RECURSIVE RenderFrom(_, _, _)
RenderFrom(t, i, style) ==
    IF i > Len(t) THEN Pad(style) \o <<")">>
    ELSE (IF i = 1 THEN t[i].class \o <<"(">> \o Pad(style)
          ELSE IF t[i].new
          THEN Pad(style) \o <<")">> \o GroupSep(style)
               \o t[i].class \o <<"(">> \o Pad(style)
          ELSE KeySep(style))
         \o t[i].key \o RenderFrom(t, i + 1, style)

RenderGroups(t, style) == RenderFrom(t, 1, style)

RECURSIVE RenderBare(_)
RenderBare(t) ==
    IF t = <<>> THEN <<>>
    ELSE IF Len(t) = 1 THEN t[1].key
    ELSE t[1].key \o <<",", " ">> \o RenderBare(Tail(t))

ListKeys == {kx, kk}

ListElements ==
    {Str(Ref(c, k)) : c \in Classes, k \in ListKeys}
        \cup {Ident(c, k) : c \in Classes, k \in ListKeys}
        \cup {Str(k) : k \in ListKeys}

Lists == UNION {[1..n -> ListElements] : n \in 1..MaxListLen}

Draws ==
    {[kind |-> "groups", v |-> t, style |-> st] : t \in TokenSeqs, st \in Styles}
        \cup {[kind |-> "bare", v |-> t, style |-> "plain"] :
                t \in {u \in TokenSeqs : \A i \in 1..Len(u) : u[i].new /\ u[i].class = cA}}
        \cup {[kind |-> "list", v |-> l, style |-> "plain"] : l \in Lists}

ValueDrawn(d) ==
    CASE d.kind = "groups" -> Str(RenderGroups(d.v, d.style))
      [] d.kind = "bare" -> Str(RenderBare(d.v))
      [] OTHER -> List(d.v)

InitFlatten ==
    /\ loaded_class_names = {}
    /\ class_name_lookup = <<>>
    /\ model_fixtures = <<>>
    /\ env = [self \in Loaders |-> NoEnv]
    /\ listing = <<<<A_y, B_y>>, <<<<"q">>, A_y>>>>
    /\ calls = <<>>
    /\ rendered = {}
    /\ pre = [cache |-> Cache, rendered |-> {}]
    /\ drawn \in Draws
    /\ op = [name |-> "__init__", self |-> 1, args |-> ValueDrawn(drawn),
             exc |-> "", ret |-> <<>>, repeat |-> FALSE]

\* loader 1 loads its whole directory
CallLoadData ==
    /\ op.name = "__init__"
    /\ Finish("_load_data", 1, op.args, _load_data(Start(1), 1, {}, listing[1]))

CallFlattenIdentifiers ==
    /\ op.name \in {"__init__", "_load_data"}
    /\ Finish("_flatten_identifiers", 1, op.args,
              LET r == _flatten_identifiers(class_name_lookup, op.args)
              IN [Start(1) EXCEPT !.exc = r.exc, !.val = r.val])

NextFlatten ==
    \/ CallLoadData
    \/ CallFlattenIdentifiers

SpecFlatten == InitFlatten /\ [][NextFlatten]_vars

(***************************************************************************)
(* What the claims speak about.                                            *)
(***************************************************************************)
CallsTo(name) == SelectSeq(calls, LAMBDA c : c.call = name)

BatchOps == {"create_all", "get_models"}
ResolvingOps == {"create_all", "get_models", "convert_identifiers"}

Files(dir) == {f \in listdir(dir) : isfile(dir, f)}
ClassOf(filename) == slice_to(filename, rfind(filename, "."))
DeclaredKeys(dir) == UNION {DictKeys(fixture_data(dir, f)) : f \in Files(dir)}

\* the identifiers the last call had to construct: its flattened argument,
\* flattened against the lookup the call found, or every known key
Requested ==
    IF Truthy(op.args)
    THEN _flatten_identifiers(pre.cache.class_name_lookup, op.args).val
    ELSE AllIdentifiers(class_name_lookup)

\* the keys an argument names without a class name
RECURSIVE BareKeysOf(_)
BareKeysOf(groups) ==
    IF groups = <<>> THEN <<>>
    ELSE (IF Falsy(Head(groups)[1])
          THEN SelectSeq(_flatten_csv_list(Head(groups)[2]), LAMBDA k : k # <<>>)
          ELSE <<>>) \o BareKeysOf(Tail(groups))

BareKeys(identifiers) ==
    CASE identifiers.type = "str" ->
            BareKeysOf(_group_by_class_name(
                AsIdentifierValues(_convert_str(identifiers.v))).val)
      [] identifiers.type = "list" ->
            BareKeysOf(_group_by_class_name(identifiers.v).val)
      [] OTHER -> <<>>

Range(seq) == {seq[i] : i \in 1..Len(seq)}

(***************************************************************************)
(* C1: a create_all / get_models call that returns has called              *)
(* create_or_update once per flattened identifier, in the order of the     *)
(* flattened list, n times for n distinct keys, and then commit once, as   *)
(* its last collaborator call.                                             *)
(***************************************************************************)
C1_CreateEachThenCommitOnce ==
    (op.name \in BatchOps /\ op.exc = "") =>
        LET created == CallsTo("create_or_update") IN
        /\ Len(created) = Len(Requested)
        /\ \A i \in 1..Len(created) : created[i].arg1 = Requested[i]
        /\ Cardinality({key_of(id) : id \in Range(Requested)}) = Len(created)
        /\ Len(CallsTo("commit")) = 1
        /\ Last(calls).call = "commit"

\* get_models("A(x,k), B(z)") returned: three constructions, then the commit
C1_Witness ==
    /\ op.name = "get_models" /\ op.args = RefGroups /\ op.exc = ""
    /\ Len(CallsTo("create_or_update")) = 3
    /\ Last(calls).call = "commit"

(***************************************************************************)
(* C2: create_all() with no identifiers renders every file of the loader's *)
(* fixtures directory, returns a mapping whose keys are exactly the keys   *)
(* those files declare, one construction per key, and commits once.        *)
(***************************************************************************)
C2_CreateAllIsTheDirectory ==
    (op.name = "create_all" /\ ~Truthy(op.args) /\ op.exc = "") =>
        LET dir == fixtures_dir(op.self) IN
        /\ \A f \in Files(dir) :
              \E i \in 1..Len(calls) :
                  calls[i].call = "render" /\ calls[i].arg1 = dir
                                           /\ calls[i].arg2 = f
        /\ DictKeys(op.ret) = DeclaredKeys(dir)
        /\ Len(CallsTo("create_or_update")) = Cardinality(DeclaredKeys(dir))
        /\ Len(CallsTo("commit")) = 1

(***************************************************************************)
(* C3: a create_all call that raises has not called commit, returns        *)
(* nothing, and keeps what it did before the failure: the files it         *)
(* rendered stay loaded, with their keys in the Source Cache, and nothing  *)
(* that was cached before the call is removed.                             *)
(***************************************************************************)
C3_FailureSkipsCommitKeepsWork ==
    (op.name = "create_all" /\ op.exc # "") =>
        /\ CallsTo("commit") = <<>>
        /\ op.ret = <<>>
        /\ pre.cache.loaded_class_names \subseteq loaded_class_names
        /\ DictKeys(pre.cache.class_name_lookup) \subseteq DictKeys(class_name_lookup)
        /\ DictKeys(pre.cache.model_fixtures) \subseteq DictKeys(model_fixtures)
        /\ \A i \in 1..Len(calls) :
              calls[i].call = "render" =>
                  /\ ClassOf(calls[i].arg2) \in loaded_class_names
                  /\ DictKeys(fixture_data(calls[i].arg1, calls[i].arg2))
                        \subseteq DictKeys(model_fixtures)

\* create_all("B(z), A(q)") on a fresh loader: B.y loaded, z constructed,
\* A.y loaded, then the lookup of q fails
C3_Witness ==
    /\ op.name = "create_all" /\ op.exc # ""
    /\ pre.cache.loaded_class_names = {}
    /\ Len(CallsTo("render")) = 2
    /\ Len(CallsTo("create_or_update")) = 1
    /\ CallsTo("commit") = <<>>
    /\ loaded_class_names = {cA, cB}

(***************************************************************************)
(* C4: no source file is rendered twice: a call renders no file that an    *)
(* earlier call rendered, none twice, and none whose class name was        *)
(* already in loaded_class_names.                                          *)
(***************************************************************************)
C4_RenderedAtMostOnce ==
    \A i \in 1..Len(calls) :
        calls[i].call = "render" =>
            /\ <<calls[i].arg1, calls[i].arg2>> \notin pre.rendered
            /\ ClassOf(calls[i].arg2) \notin pre.cache.loaded_class_names
            /\ \A j \in 1..Len(calls) :
                  (j # i /\ calls[j].call = "render") =>
                      <<calls[j].arg1, calls[j].arg2>>
                          # <<calls[i].arg1, calls[i].arg2>>

(***************************************************************************)
(* C5: a second _maybe_load_data call with the same class names, right     *)
(* after the first, does not list the directory, renders nothing and       *)
(* leaves the Source Cache as it was.                                      *)
(***************************************************************************)
C5_SecondLoadIsNoOp ==
    (op.name = "_maybe_load_data" /\ op.repeat) =>
        /\ calls = <<>>
        /\ Cache = pre.cache

(***************************************************************************)
(* C6: a key that class_name_lookup maps to a class keeps that class.      *)
(***************************************************************************)
C6_FirstLoadWins ==
    \A k \in DictKeys(pre.cache.class_name_lookup) :
        /\ DictHas(class_name_lookup, k)
        /\ DictGet(class_name_lookup, k) = DictGet(pre.cache.class_name_lookup, k)

(***************************************************************************)
(* C7: every identifier constructed for a key that was named without a     *)
(* class carries the class class_name_lookup gives for that key.           *)
(***************************************************************************)
C7_BareKeyGetsItsOwnClass ==
    (op.name \in ResolvingOps /\ Truthy(op.args)) =>
        \A i \in 1..Len(calls) :
            (calls[i].call = "maybe_convert_values"
                /\ key_of(calls[i].arg1) \in Range(BareKeys(op.args))) =>
                /\ DictHas(pre.cache.class_name_lookup, key_of(calls[i].arg1))
                /\ class_name_of(calls[i].arg1) =
                      DictGet(pre.cache.class_name_lookup, key_of(calls[i].arg1))

(***************************************************************************)
(* C8: a call that names a bare key missing from class_name_lookup raises  *)
(* the lookup error of class_name_lookup, loads and renders nothing, calls *)
(* neither create_or_update nor commit, and leaves the Source Cache alone. *)
(***************************************************************************)
C8_UnknownBareKeyFailsFast ==
    (/\ op.name \in ResolvingOps
     /\ Truthy(op.args)
     /\ \E k \in Range(BareKeys(op.args)) :
            ~DictHas(pre.cache.class_name_lookup, k)) =>
        /\ op.exc = "KeyError: class_name_lookup"
        /\ calls = <<>>
        /\ Cache = pre.cache

(***************************************************************************)
(* The identifiers a drawn reference string names, in the order written.   *)
(***************************************************************************)
RECURSIVE Named(_)
Named(t) ==
    IF t = <<>> THEN <<>>
    ELSE (IF Head(t).key = <<>> THEN <<>>
          ELSE <<Identifier(Head(t).class, Head(t).key)>>) \o Named(Tail(t))

\* no key is written under two class names
OneClassPerKey(ids) ==
    \A i, j \in 1..Len(ids) : key_of(ids[i]) = key_of(ids[j]) => ids[i] = ids[j]

\* no key is written twice, and the groups of a class (the empty ones
\* too) follow one another
WrittenOnceClassByClass(t) ==
    /\ \A i, j \in 1..Len(t) :
          (i # j /\ t[i].key # <<>>) => t[i].key # t[j].key
    /\ \A i, j, l \in 1..Len(t) :
          (i < j /\ j < l /\ t[i].class = t[l].class) => t[j].class = t[i].class

(***************************************************************************)
(* C9: flattening a reference string of groups Class(key, ...) that names  *)
(* at least one key, and no key under two classes, raises nothing and      *)
(* returns one identifier per trimmed non-empty key, with the class of the *)
(* key's group; when no key is written twice and the groups of a class     *)
(* follow one another, as in "A(x,y), B(z)", the identifiers come in the   *)
(* order written.                                                          *)
(***************************************************************************)
C9_GroupsFlattenToTheirKeys ==
    (/\ op.name = "_flatten_identifiers"
     /\ drawn.kind = "groups"
     /\ Named(drawn.v) # <<>>
     /\ OneClassPerKey(Named(drawn.v))) =>
        /\ op.exc = ""
        /\ Range(op.ret) = Range(Named(drawn.v))
        /\ Len(op.ret) = Cardinality(Range(Named(drawn.v)))
        /\ WrittenOnceClassByClass(drawn.v) => op.ret = Named(drawn.v)

\* "A(x,k), B(z)" flattened to (A,x), (A,k), (B,z)
C9_Witness ==
    /\ op.name = "_flatten_identifiers"
    /\ op.args = RefGroups
    /\ op.ret = <<Identifier(cA, kx), Identifier(cA, kk), Identifier(cB, kz)>>

(***************************************************************************)
(* C10: the list flattening returns holds no two identifiers with the same *)
(* key: it has one identifier for each distinct non-empty key of the       *)
(* argument.                                                               *)
(***************************************************************************)
DrawnKeys ==
    IF drawn.kind = "list"
    THEN {IF e.type = "Identifier" THEN key_of(e.v)
          ELSE IF e.v[Len(e.v)] = ")" THEN <<e.v[Len(e.v) - 1]>> ELSE e.v
            : e \in Range(drawn.v)}
    ELSE {drawn.v[i].key : i \in 1..Len(drawn.v)} \ {<<>>}

C10_FlattenedKeysAreUnique ==
    (op.name = "_flatten_identifiers" /\ op.exc = "") =>
        /\ \A i, j \in 1..Len(op.ret) :
              i # j => key_of(op.ret[i]) # key_of(op.ret[j])
        /\ {key_of(id) : id \in Range(op.ret)} = DrawnKeys
        /\ Len(op.ret) = Cardinality(DrawnKeys)

\* ["A(x)", "A(x)", Identifier("A", "x")] flattened to the one (A, x)
C10_Witness ==
    /\ op.name = "_flatten_identifiers"
    /\ op.args = RefDuplicates
    /\ op.ret = <<Identifier(cA, kx)>>

(***************************************************************************)
(* C11: when a key is written several times in a reference string, the     *)
(* identifier flattening keeps for it is the first one written: "A(k),     *)
(* B(k)" gives (A, k).                                                     *)
(***************************************************************************)
RECURSIVE FirstWithKey(_, _)
FirstWithKey(ids, key) ==
    IF key_of(Head(ids)) = key THEN Head(ids)
    ELSE FirstWithKey(Tail(ids), key)

KeysOf(ids) == [i \in 1..Len(ids) |-> key_of(ids[i])]

C11_FirstSeenIdentifierKept ==
    (/\ op.name = "_flatten_identifiers"
     /\ drawn.kind = "groups"
     /\ Named(drawn.v) # <<>>
     /\ op.exc = "") =>
        \A i \in 1..Len(op.ret) :
            /\ key_of(op.ret[i]) \in Range(KeysOf(Named(drawn.v)))
            /\ op.ret[i] = FirstWithKey(Named(drawn.v), key_of(op.ret[i]))

(***************************************************************************)
(* C12: the keys of the flattened list come in the order of their first    *)
(* occurrence in the reference string, also when the groups of different   *)
(* classes are interleaved: "A(x), B(z), A(k)" gives x, z, k.              *)
(***************************************************************************)
RECURSIVE FirstOccurrences(_, _)
FirstOccurrences(keys, seen) ==
    IF keys = <<>> THEN <<>>
    ELSE IF Head(keys) \in seen THEN FirstOccurrences(Tail(keys), seen)
    ELSE <<Head(keys)>>
         \o FirstOccurrences(Tail(keys), seen \cup {Head(keys)})

C12_OrderedByFirstOccurrence ==
    (/\ op.name = "_flatten_identifiers"
     /\ drawn.kind = "groups"
     /\ \A i \in 1..Len(drawn.v) : drawn.v[i].key # <<>>
     /\ op.exc = "") =>
        KeysOf(op.ret) = FirstOccurrences(KeysOf(Named(drawn.v)), {})

(***************************************************************************)
(* C13: create_all(["C(k)"]) that returns has constructed k alone, has C   *)
(* in loaded_class_names, has rendered no file of another class, and has   *)
(* left every other class as it was: its membership of loaded_class_names  *)
(* and the cache entries of the keys that belonged to it.                  *)
(***************************************************************************)
C13_OnlyTheReferencedClassIsTouched ==
    \A c \in {cA, cB, cQ}, k \in {kx, kk, kz, kw, kq} :
        (/\ op.name = "create_all"
         /\ op.args.type = "list"
         /\ op.args = SingleRef(c, k)
         /\ op.exc = "") =>
            /\ Len(CallsTo("create_or_update")) = 1
            /\ CallsTo("create_or_update")[1].arg1 = Identifier(c, k)
            /\ c \in loaded_class_names
            /\ loaded_class_names \ {c} = pre.cache.loaded_class_names \ {c}
            /\ \A i \in 1..Len(calls) :
                  calls[i].call = "render" => ClassOf(calls[i].arg2) = c
            /\ \A key \in DictKeys(pre.cache.class_name_lookup) :
                  DictGet(pre.cache.class_name_lookup, key) # c =>
                      /\ DictGet(class_name_lookup, key)
                            = DictGet(pre.cache.class_name_lookup, key)
                      /\ DictGet(model_fixtures, key)
                            = DictGet(pre.cache.model_fixtures, key)

(***************************************************************************)
(* C14: create, given a class name and a key or a reference string that    *)
(* names one key, never lists the directory and renders nothing.  When the *)
(* key is in model_fixtures it calls create_or_update once, with the       *)
(* cached data of the key, and then, the factory not failing, commit once; *)
(* when it is not, the call raises the key error of model_fixtures with no *)
(* collaborator call.  Either way the Source Cache is left as it was.      *)
(***************************************************************************)
\* the text a reference string has between its parentheses, or all of it
\* when it has none
ReferenceKey(s) ==
    IF s # <<>> /\ Last(s) = ")"
    THEN SubSeq(s, Min({i \in 1..Len(s) : s[i] = "("}) + 1, Len(s) - 1)
    ELSE s

CreateKey(args) == IF args[2] # None_ THEN args[2] ELSE ReferenceKey(args[1])

C14_CreateNeverLoads ==
    (op.name = "create" /\ "," \notin Range(CreateKey(op.args))) =>
        /\ CallsTo("listdir") = <<>>
        /\ CallsTo("render") = <<>>
        /\ Cache = pre.cache
        /\ IF DictHas(pre.cache.model_fixtures, CreateKey(op.args))
           THEN /\ op.exc \in {"", "FactoryError"}
                /\ Len(CallsTo("create_or_update")) = 1
                /\ key_of(calls[1].arg1) = CreateKey(op.args)
                /\ calls[1].arg2
                      = DictGet(pre.cache.model_fixtures, CreateKey(op.args))
                /\ op.exc = "" =>
                      /\ Len(calls) = 2
                      /\ calls[1].call = "create_or_update"
                      /\ calls[2].call = "commit"
                /\ op.exc # "" => Len(calls) = 1
           ELSE /\ op.exc = "KeyError: model_fixtures"
                /\ calls = <<>>

\* create("A", "x") on a loader that has loaded B.y alone fails, A.y unread
C14_Witness ==
    /\ op.name = "create" /\ op.args = <<cA, kx>>
    /\ pre.cache.loaded_class_names = {cB}
    /\ op.exc = "KeyError: model_fixtures"
    /\ loaded_class_names = {cB}

(***************************************************************************)
(* C15: every loader has a Source Cache of its own: an operation of one    *)
(* loader leaves the cache of every other loader as it was, and a loader   *)
(* on another directory loads a class although the first loader has loaded *)
(* a class of that name: loader 2 can construct A(w), which directory 2    *)
(* declares.                                                               *)
(***************************************************************************)
\* the Source Cache a loader reads and writes: the three attributes are
\* looked up on the instance and found on the class
SourceCache(self) == Cache
SourceCacheBefore(self) == pre.cache

C15_EachLoaderOwnsItsCache ==
    /\ op.name # "__init__" =>
          \A other \in Loaders \ {op.self} :
              SourceCache(other) = SourceCacheBefore(other)
    /\ (/\ op.name \in ResolvingOps
        /\ op.self = 2
        /\ op.args = RefOtherDir
        /\ op.exc # "FactoryError") => op.exc = ""

(***************************************************************************)
(* C16: between operations class_name_lookup and model_fixtures have the   *)
(* same keys.                                                              *)
(***************************************************************************)
C16_SameKeySets == DictKeys(class_name_lookup) = DictKeys(model_fixtures)

\* both files of directory 1 are loaded: three keys in each table
C16_Witness ==
    /\ loaded_class_names = {cA, cB}
    /\ DictKeys(class_name_lookup) = {kx, kk, kz}
    /\ Len(model_fixtures) = 3

(***************************************************************************)
(* C17: no operation, returning or raising, removes a class name from      *)
(* loaded_class_names or a key from class_name_lookup or model_fixtures;   *)
(* a key can be loaded by an operation that hands nothing to the factory.  *)
(***************************************************************************)
C17_NeverRegresses ==
    /\ pre.cache.loaded_class_names \subseteq loaded_class_names
    /\ DictKeys(pre.cache.class_name_lookup) \subseteq DictKeys(class_name_lookup)
    /\ DictKeys(pre.cache.model_fixtures) \subseteq DictKeys(model_fixtures)

\* A.y was loaded before; B.y is loaded by a call that constructs nothing
C17_Witness ==
    /\ op.name = "_maybe_load_data"
    /\ pre.cache.loaded_class_names = {cA}
    /\ loaded_class_names = {cA, cB}
    /\ kz \in DictKeys(model_fixtures)
    /\ CallsTo("create_or_update") = <<>>

(***************************************************************************)
(* C18: in create_all, get_models and convert_identifiers every            *)
(* create_or_update call is for an identifier whose class is in            *)
(* loaded_class_names, and follows at once the maybe_convert_values call   *)
(* for the same identifier, which was given the raw data of the            *)
(* identifier's key and whose converted data create_or_update receives; a  *)
(* call given identifiers renders files of the classes it was asked for    *)
(* only.                                                                   *)
(***************************************************************************)
C18_LoadedThenConvertedThenCreated ==
    op.name \in ResolvingOps =>
        /\ \A i \in 1..Len(calls) :
              calls[i].call = "create_or_update" =>
                  /\ class_name_of(calls[i].arg1) \in loaded_class_names
                  /\ i > 1
                  /\ calls[i - 1].call = "maybe_convert_values"
                  /\ calls[i - 1].arg1 = calls[i].arg1
                  /\ calls[i - 1].arg2[1] = "raw"
                  /\ calls[i - 1].arg2[4] = key_of(calls[i].arg1)
                  /\ calls[i].arg2 = ConvertedData(calls[i - 1].arg2)
        /\ Truthy(op.args) =>
              \A i \in 1..Len(calls) :
                  calls[i].call = "render" =>
                      ClassOf(calls[i].arg2)
                          \in {class_name_of(id) : id \in Range(Requested)}

(***************************************************************************)
(* C19: every identifier the parser returns for the reference string       *)
(* create is given has a single trimmed key, so that create("A(x, k)"),    *)
(* with x in the cache, constructs (A, x).                                 *)
(***************************************************************************)
RefTwoKeys == Ref(cA, <<"x", ",", " ", "k">>)

C19_CreateTakesTheFirstKey ==
    (op.name = "create" /\ op.args[2] = None_) =>
        /\ \A id \in Range(_convert_str(op.args[1])) :
              Range(key_of(id)) \cap ({","} \cup SpaceChars) = {}
        /\ (/\ op.args[1] = RefTwoKeys
            /\ DictHas(pre.cache.model_fixtures, kx)
            /\ op.exc # "FactoryError") =>
                /\ op.exc = ""
                /\ calls[1].call = "create_or_update"
                /\ calls[1].arg1 = Identifier(cA, kx)

(***************************************************************************)
(* C20: whenever create_all, get_models or convert_identifiers hand an     *)
(* identifier (C, k) and data to create_or_update, the file of class C in  *)
(* the loader's directory declares k and the data are the converted data   *)
(* it declares for k; a reference B(x), x being declared by A.y alone,     *)
(* fails with the key error of model_fixtures.  Stated for loader 1, no    *)
(* file of another directory having been rendered.                         *)
(***************************************************************************)
C20_FactoryGetsTheDeclaredData ==
    (/\ op.name \in ResolvingOps
     /\ op.self = 1
     /\ \A r \in rendered : r[1] = fixtures_dir(1)) =>
        /\ \A i \in 1..Len(calls) :
              calls[i].call = "create_or_update" =>
                  \E f \in Files(fixtures_dir(1)) :
                      /\ ClassOf(f) = class_name_of(calls[i].arg1)
                      /\ DictHas(fixture_data(fixtures_dir(1), f),
                                 key_of(calls[i].arg1))
                      /\ calls[i].arg2 = ConvertedData(
                            DictGet(fixture_data(fixtures_dir(1), f),
                                    key_of(calls[i].arg1)))
        /\ op.args = RefWrongClass => op.exc = "KeyError: model_fixtures"
=============================================================================
